---- MODULE Spec2Model ----
(***************************************************************************)
(* A model of img2pix's ImageProcessor (src/utility/image_processor.py):   *)
(* the four fields of the processor, its operations load_image,            *)
(* apply_pixelation, set_background_color and the public stage helpers,    *)
(* over 8-bit pixel buffers.  The imaging-library calls the code makes     *)
(* (open, convert, copy, resize, paste, putalpha, quantize, enhance) are   *)
(* modelled by what they compute on the pixels, in integer arithmetic.     *)
(***************************************************************************)
EXTENDS Integers, Sequences, FiniteSets, TLC

VARIABLES
    original_image,    \* ImageProcessor.original_image (NoImage when None)
    processed_image,   \* ImageProcessor.processed_image (NoImage when None)
    has_transparency,  \* ImageProcessor.has_transparency
    background_color,  \* ImageProcessor.background_color
    run,               \* the last call of load_image / apply_pixelation: arguments, result, stage buffers
    helper,            \* the last call of a stage helper on a caller's buffer
    app                \* Img2PixApp: its processors, widgets, worker threads and scheduled callbacks

vars == <<original_image, processed_image, has_transparency, background_color, run, helper, app>>

(***************************************************************************)
(* Bounds of the model.                                                    *)
(***************************************************************************)
\* largest width or height of an image given to the pipeline
MaxDim == 7
\* largest number of pixels of an image given to the pipeline
MaxArea == 14
\* width and height of the files loaded in a session
SessionDim == 2
\* largest width or height of a buffer given to a stage helper
MaxHelperDim == 3
\* largest pixel_size tried (0 and -1 are tried as well)
MaxPixelSize == 3
\* largest num_colors tried (0 is tried as well)
MaxColors == 3

(***************************************************************************)
(* Small arithmetic.                                                       *)
(***************************************************************************)
Max(a, b) == IF a > b THEN a ELSE b

\* Python's a // b (floor division), b /= 0
FloorDiv(a, b) == IF b > 0 THEN a \div b ELSE (0 - a) \div (0 - b)

RECURSIVE SumSeq(_)
SumSeq(s) == IF s = <<>> THEN 0 ELSE Head(s) + SumSeq(Tail(s))

\* the elements of a sequence
Range(s) == {s[i] : i \in 1..Len(s)}

\* F applied to the value of v: v is computed once, then named in F
Let(v, F(_)) == CHOOSE r \in {F(x) : x \in {v}} : TRUE

(***************************************************************************)
(* Images.  A buffer is a record: mode, width, height, the pixels in row   *)
(* order (a tuple of samples each), the palette of a P image, the          *)
(* transparent palette index a P file declares (a set: empty when there is *)
(* none), and whether the pixel data can be decoded (Image.open reads the  *)
(* header only; the data is decoded by the first operation that needs it). *)
(***************************************************************************)
NoImage ==
    [mode |-> "None", w |-> 0, h |-> 0, px |-> <<>>, palette |-> <<>>,
     transparency |-> {}, decodable |-> FALSE]

\* a decoded buffer of the given pixels (held as a tuple)
MkImage(mode, w, h, px) ==
    [mode |-> mode, w |-> w, h |-> h, px |-> px \o <<>>, palette |-> <<>>,
     transparency |-> {}, decodable |-> TRUE]

\* Image.new(mode, size, color)
NewImage(mode, w, h, color) == MkImage(mode, w, h, [i \in 1..(w * h) |-> color])

\* the RGB samples of a pixel of an RGB or RGBA buffer
RGBOf(p) == <<p[1], p[2], p[3]>>

\* ImageConvert rgb2l: L = (R*19595 + G*38470 + B*7471 + 0x8000) >> 16
Luma(p) == (p[1] * 19595 + p[2] * 38470 + p[3] * 7471 + 32768) \div 65536

\* one pixel of Image.convert('RGB')
ToRGB(im, p) ==
    CASE im.mode = "RGB"  -> p
      [] im.mode = "RGBA" -> RGBOf(p)
      [] im.mode = "L"    -> <<p[1], p[1], p[1]>>
      [] im.mode = "LA"   -> <<p[1], p[1], p[1]>>
      [] im.mode = "P"    -> im.palette[p[1] + 1]

\* one pixel of Image.convert('RGBA'); a P image's transparent index gets alpha 0
ToRGBA(im, p) ==
    CASE im.mode = "RGB"  -> <<p[1], p[2], p[3], 255>>
      [] im.mode = "RGBA" -> p
      [] im.mode = "L"    -> <<p[1], p[1], p[1], 255>>
      [] im.mode = "LA"   -> <<p[1], p[1], p[1], p[2]>>
      [] im.mode = "P"    ->
            LET c == im.palette[p[1] + 1]
            IN <<c[1], c[2], c[3], IF p[1] \in im.transparency THEN 0 ELSE 255>>

\* Image.convert(mode) of a decodable image, for mode in RGB, RGBA, L
Convert(im, mode) ==
    MkImage(mode, im.w, im.h,
            [i \in 1..Len(im.px) |->
                CASE mode = "RGB"  -> ToRGB(im, im.px[i])
                  [] mode = "RGBA" -> ToRGBA(im, im.px[i])
                  [] mode = "L"    -> <<Luma(ToRGB(im, im.px[i]))>>])

\* Image.copy()
Copy(im) == MkImage(im.mode, im.w, im.h, im.px)

\* Image.split()[3] of an RGBA image: the alpha plane, an L image
AlphaPlane(im) == MkImage("L", im.w, im.h, [i \in 1..Len(im.px) |-> <<im.px[i][4]>>])

\* Paste.c DIV255: (a + 128 + ((a + 128) >> 8)) >> 8
Div255(a) == (((a + 128) \div 256) + (a + 128)) \div 256

\* Paste.c BLEND8: one sample of paste(..., mask): in1 is the destination, in2 the pasted sample
Blend8(mask, in1, in2) == Div255(in1 * (255 - mask) + in2 * mask)

\* dest.paste(im, mask=mask) for an RGB dest and an RGB or RGBA im of the same size
PasteMasked(dest, im, mask) ==
    MkImage(dest.mode, dest.w, dest.h,
            [i \in 1..Len(dest.px) |->
                <<Blend8(mask.px[i][1], dest.px[i][1], im.px[i][1]),
                  Blend8(mask.px[i][1], dest.px[i][2], im.px[i][2]),
                  Blend8(mask.px[i][1], dest.px[i][3], im.px[i][3])>>])

\* dest.paste(im) for an RGBA dest and an RGB im of the same size: im is converted to RGBA and copied
PasteOpaque(dest, im) == Convert(im, dest.mode)

\* Image.putalpha(alpha) on an RGBA image
PutAlpha(im, alpha) ==
    MkImage("RGBA", im.w, im.h,
            [i \in 1..Len(im.px) |->
                <<im.px[i][1], im.px[i][2], im.px[i][3], alpha.px[i][1]>>])

\* Image.resize raises ValueError for a size that is not positive
ResizeRaises(nw, nh) == nw < 1 \/ nh < 1

\* the source coordinate nearest-neighbour scaling reads for output coordinate x (0-based):
\* floor((x + 0.5) * n_in / n_out)
NearestSrc(x, n_in, n_out) == ((2 * x + 1) * n_in) \div (2 * n_out)

\* Image.resize((nw, nh), Image.Resampling.NEAREST)
Resize(im, nw, nh) ==
    MkImage(im.mode, nw, nh,
            [i \in 1..(nw * nh) |->
                LET x == (i - 1) % nw
                    y == (i - 1) \div nw
                IN im.px[NearestSrc(y, im.h, nh) * im.w + NearestSrc(x, im.w, nw) + 1]])

Abs(a) == IF a < 0 THEN 0 - a ELSE a

\* Image.thumbnail's round_aspect for the width: the floor or the ceiling of y * w / h,
\* the one whose ratio to y is nearer to w / h (the floor when they tie), at least 1
RoundAspectX(w, h, y) ==
    LET lo == (y * w) \div h
        hi == IF (y * w) % h = 0 THEN lo ELSE lo + 1
    IN Max(1, IF Abs(w * y - lo * h) <= Abs(w * y - hi * h) THEN lo ELSE hi)

\* Image.thumbnail's round_aspect for the height: the floor or the ceiling of x * h / w,
\* the one for which x / n is nearer to w / h (0 counts as nearest), at least 1
RoundAspectY(w, h, x) ==
    LET lo == (x * h) \div w
        hi == IF (x * h) % w = 0 THEN lo ELSE lo + 1
    IN Max(1, IF lo = 0 \/ Abs(w * lo - x * h) * hi <= Abs(w * hi - x * h) * lo THEN lo ELSE hi)

\* the size Image.thumbnail((x, y)) gives an image of size (w, h): unchanged when the image
\* fits, else the largest size within (x, y) of the image's aspect ratio
ThumbnailSize(w, h, x, y) ==
    IF x >= w /\ y >= h THEN <<w, h>>
    ELSE IF x * h >= y * w THEN <<RoundAspectX(w, h, y), y>>
    ELSE <<x, RoundAspectY(w, h, x)>>

\* the image after image.thumbnail((x, y), NEAREST), which changes the image itself
Thumbnail(image, x, y) ==
    Let(ThumbnailSize(image.w, image.h, x, y), LAMBDA size :
        IF size = <<image.w, image.h>> THEN image ELSE Resize(image, size[1], size[2]))

\* ImageProcessor.resize_image: the image returned and the image passed as it is afterwards
resize_image(image, target_size, maintain_aspect) ==
    IF maintain_aspect
    THEN Let(Thumbnail(image, target_size[1], target_size[2]), LAMBDA shrunk :
             [out |-> shrunk, image |-> shrunk])
    ELSE [out |-> Resize(image, target_size[1], target_size[2]), image |-> image]

(***************************************************************************)
(* Enhancement.  A factor is counted in halves (2 is the factor 1.0), so   *)
(* that the blend is exact in integers.                                    *)
(***************************************************************************)
\* the enhancement factors tried: 0.5, 1.0, 1.5
Factors == {1, 2, 3}

\* the factor 1.0
One == 2

\* Blend.c, one sample of Image.blend(im1, im2, alpha) for alpha = f/2 other than 0.0 and 1.0:
\* in1 + alpha * (in2 - in1), truncated, and clipped to 0..255 when alpha is outside [0, 1]
BlendSample(in1, in2, f) ==
    LET twice == 2 * in1 + f * (in2 - in1)
    IN IF twice <= 0 THEN 0
       ELSE IF twice >= 2 * 255 THEN 255
       ELSE twice \div 2

\* Image.blend(im1, im2, alpha): a copy of im1 for 0.0, of im2 for 1.0
Blend(im1, im2, f) ==
    IF f = 0 THEN Copy(im1)
    ELSE IF f = One THEN Copy(im2)
    ELSE MkImage(im2.mode, im2.w, im2.h,
                 [i \in 1..Len(im2.px) |->
                     <<BlendSample(im1.px[i][1], im2.px[i][1], f),
                       BlendSample(im1.px[i][2], im2.px[i][2], f),
                       BlendSample(im1.px[i][3], im2.px[i][3], f)>>])

\* ImageStat.Stat(im.convert("L")).mean[0], rounded: int(mean + 0.5)
MeanLuma(im) ==
    (2 * SumSeq([i \in 1..Len(im.px) |-> Luma(im.px[i])]) + Len(im.px)) \div (2 * Len(im.px))

\* ImageEnhance.Contrast(im).enhance(f) on an RGB image: blend with the uniform image
\* of the rounded mean luma
EnhanceContrast(im, f) ==
    Let(MeanLuma(im), LAMBDA mean :
        Let(NewImage("RGB", im.w, im.h, <<mean, mean, mean>>), LAMBDA degenerate :
            Blend(degenerate, im, f)))

\* ImageEnhance.Color(im).enhance(f) on an RGB image: blend with its grayscale version
EnhanceColor(im, f) ==
    Let(Convert(Convert(im, "L"), "RGB"), LAMBDA degenerate : Blend(degenerate, im, f))

\* apply_pixelation's "Apply to RGB channels only" branch, for contrast and for saturation:
\* the RGBA buffer is pasted on a black RGB image through its own alpha, enhanced,
\* pasted into a new RGBA image, and given the buffer's alpha again
EnhanceRGBA(img, f, kind) ==
    Let(PasteMasked(NewImage("RGB", img.w, img.h, <<0, 0, 0>>), img, AlphaPlane(img)),
        LAMBDA rgb_part :
    Let(IF kind = "contrast" THEN EnhanceContrast(rgb_part, f) ELSE EnhanceColor(rgb_part, f),
        LAMBDA enhanced_rgb :
    Let(PasteOpaque(NewImage("RGBA", img.w, img.h, <<0, 0, 0, 0>>), enhanced_rgb),
        LAMBDA enhanced :
    PutAlpha(enhanced, AlphaPlane(img)))))

\* one enhancement of apply_pixelation, without its guard
Enhance(img, f, kind) ==
    IF img.mode = "RGBA" THEN EnhanceRGBA(img, f, kind)
    ELSE IF kind = "contrast" THEN EnhanceContrast(img, f)
    ELSE EnhanceColor(img, f)

\* a faulty variant of ContrastStage: the enhancement runs whatever the factor
ContrastStageAlways(img, contrast) == Enhance(img, contrast, "contrast")

\* apply_pixelation: "if contrast != 1.0: ..."
ContrastStage(img, contrast) ==
    IF contrast /= One THEN Enhance(img, contrast, "contrast") ELSE img

\* apply_pixelation: "if saturation != 1.0: ..."
SaturationStage(img, saturation) ==
    IF saturation /= One THEN Enhance(img, saturation, "saturation") ELSE img

(***************************************************************************)
(* Compositing.                                                            *)
(***************************************************************************)
\* a faulty variant of composite_with_background: the image is pasted without its alpha mask
CompositeNoMask(image, color) == Convert(image, "RGB")

\* ImageProcessor._composite_with_background
composite_with_background(image, color) ==
    LET background == NewImage("RGB", image.w, image.h, color)
    IN IF image.mode = "RGBA" THEN PasteMasked(background, image, AlphaPlane(image))
       ELSE Convert(image, "RGB")

(***************************************************************************)
(* Quantization: Image.quantize(colors, method=MEDIANCUT) on an RGB        *)
(* buffer, followed by convert('RGB').  A box is a set of distinct colors; *)
(* the count of a color is the number of pixels that have it.              *)
(***************************************************************************)
\* Image.quantize raises ValueError unless 1 <= colors <= 256
QuantizeRaises(num_colors) == num_colors < 1 \/ num_colors > 256

\* the number of pixels of px whose color is in box
PixelCount(px, box) == Cardinality({i \in 1..Len(px) : px[i] \in box})

\* the largest and the smallest value of a box on an axis
AxisHigh(box, axis) == CHOOSE v \in {c[axis] : c \in box} : \A c \in box : c[axis] <= v
AxisLow(box, axis) == CHOOSE v \in {c[axis] : c \in box} : \A c \in box : c[axis] >= v

\* the range of a box on an axis, weighted 77, 150, 29 for R, G, B
AxisRange(box, axis) ==
    (AxisHigh(box, axis) - AxisLow(box, axis)) * (CASE axis = 1 -> 77 [] axis = 2 -> 150 [] axis = 3 -> 29)

\* the axis a box is split on: the first one of largest weighted range
SplitAxis(box) ==
    CHOOSE a \in 1..3 :
        /\ \A b \in 1..3 : AxisRange(box, b) <= AxisRange(box, a)
        /\ \A b \in 1..(a - 1) : AxisRange(box, b) < AxisRange(box, a)

\* a box of a single color cannot be split
CanSplit(box) == AxisRange(box, SplitAxis(box)) > 0

\* the colors of a box at or above a value on an axis
AtLeast(box, axis, v) == {c \in box : c[axis] >= v}

\* whether the colors at or above v hold more than half of the box's pixels
OverHalf(px, box, axis, v) == 2 * PixelCount(px, AtLeast(box, axis, v)) > PixelCount(px, box)

\* the value a split stops at: the colors are taken from the high end of the axis until
\* they hold more than half of the box's pixels, whole values at a time
SplitValue(px, box, axis) ==
    CHOOSE v \in {c[axis] : c \in box} :
        /\ OverHalf(px, box, axis, v)
        /\ \A u \in {c[axis] : c \in box} : u > v => ~OverHalf(px, box, axis, u)

\* the upper part of a split; when the colors taken are the whole box, the colors of the
\* lowest value go to the lower part
SplitHigh(px, box) ==
    IF AtLeast(box, SplitAxis(box), SplitValue(px, box, SplitAxis(box))) = box
    THEN {c \in box : c[SplitAxis(box)] > AxisLow(box, SplitAxis(box))}
    ELSE AtLeast(box, SplitAxis(box), SplitValue(px, box, SplitAxis(box)))

\* the number of splits median_cut makes for a palette of num_colors entries
MedianCutSplits(num_colors) == num_colors - 1

\* the open box median_cut takes next: the one of most pixels, the first of them
NextBox(px, boxes) ==
    CHOOSE j \in 1..Len(boxes) :
        /\ boxes[j].open
        /\ \A k \in 1..Len(boxes) :
               boxes[k].open => /\ PixelCount(px, boxes[k].colors) <= PixelCount(px, boxes[j].colors)
                                /\ k < j => PixelCount(px, boxes[k].colors) < PixelCount(px, boxes[j].colors)

\* boxes with box i replaced by the two parts of its split
SplitAt(boxes, i, high) ==
    SubSeq(boxes, 1, i - 1)
        \o <<[colors |-> high, open |-> TRUE], [colors |-> boxes[i].colors \ high, open |-> TRUE]>>
        \o SubSeq(boxes, i + 1, Len(boxes))

\* median_cut: the open box of most pixels is split until the splits are used up or no box
\* is open; a box that cannot be split is closed.  boxes is a sequence of
\* [colors, open] records, a split box replaced by its two parts
RECURSIVE MedianCut(_, _, _)
MedianCut(px, boxes, splits) ==
    IF splits <= 0 \/ \A j \in 1..Len(boxes) : ~boxes[j].open THEN boxes
    ELSE Let(NextBox(px, boxes), LAMBDA i :
             IF ~CanSplit(boxes[i].colors)
             THEN MedianCut(px, [boxes EXCEPT ![i].open = FALSE], splits)
             ELSE Let(SplitAt(boxes, i, SplitHigh(px, boxes[i].colors)), LAMBDA split :
                      MedianCut(px, split, splits - 1)))

\* compute_palette_from_median_cut: the palette entry of a box is the mean color of its
\* pixels, each channel rounded, (int)(0.5 + sum / count)
BoxColor(px, box) ==
    LET n == PixelCount(px, box)
        mean(ch) == (2 * SumSeq([i \in 1..Len(px) |-> IF px[i] \in box THEN px[i][ch] ELSE 0]) + n)
                        \div (2 * n)
    IN <<mean(1), mean(2), mean(3)>>

\* the squared distance of two colors
Dist2(c, d) == (c[1] - d[1]) * (c[1] - d[1]) + (c[2] - d[2]) * (c[2] - d[2]) + (c[3] - d[3]) * (c[3] - d[3])

\* map_image_pixels_from_median_box: a pixel gets the palette entry nearest to its color,
\* the entry of its own box unless another is strictly nearer
NearestEntry(palette, own, c) ==
    IF \A k \in 1..Len(palette) : Dist2(palette[own], c) <= Dist2(palette[k], c) THEN own
    ELSE CHOOSE j \in 1..Len(palette) :
             /\ \A k \in 1..Len(palette) : Dist2(palette[j], c) <= Dist2(palette[k], c)
             /\ \A k \in 1..(j - 1) : Dist2(palette[j], c) < Dist2(palette[k], c)

\* image.quantize(colors=num_colors, method=MEDIANCUT).convert('RGB') for an RGB image
\* of at least one pixel and 1 <= num_colors <= 256
QuantizeRGB(image, num_colors) ==
    Let(MedianCut(image.px, <<[colors |-> Range(image.px), open |-> TRUE]>>, MedianCutSplits(num_colors)),
        LAMBDA boxes :
    Let([b \in 1..Len(boxes) |-> BoxColor(image.px, boxes[b].colors)] \o <<>>,
        LAMBDA palette :
    MkImage("RGB", image.w, image.h,
            [i \in 1..Len(image.px) |->
                palette[NearestEntry(palette,
                                     CHOOSE b \in 1..Len(boxes) : image.px[i] \in boxes[b].colors,
                                     image.px[i])]])))

\* Image.quantize with MEDIANCUT raises ValueError for an RGBA image
QuantizeColorsRaises(image, num_colors) == image.mode = "RGBA" \/ QuantizeRaises(num_colors)

\* ImageProcessor.quantize_colors
quantize_colors(image, num_colors) == QuantizeRGB(image, num_colors)

\* a faulty variant of quantize_colors_with_alpha: the RGBA branch recombines the unquantized RGB part
quantize_colors_with_alpha_raw(image, num_colors) ==
    IF image.mode = "RGBA"
    THEN PutAlpha(PasteOpaque(NewImage("RGBA", image.w, image.h, <<0, 0, 0, 0>>), Convert(image, "RGB")),
                  AlphaPlane(image))
    ELSE image

\* a faulty variant of quantize_colors_with_alpha: putalpha is left out
quantize_colors_with_alpha_opaque(image, num_colors) ==
    IF image.mode = "RGBA"
    THEN PasteOpaque(NewImage("RGBA", image.w, image.h, <<0, 0, 0, 0>>),
                     QuantizeRGB(Convert(image, "RGB"), num_colors))
    ELSE QuantizeRGB(image, num_colors)

\* ImageProcessor.quantize_colors_with_alpha
quantize_colors_with_alpha(image, num_colors) ==
    IF image.mode = "RGBA"
    THEN Let(Convert(image, "RGB"), LAMBDA rgb_part :
         Let(AlphaPlane(image), LAMBDA alpha_part :
         Let(QuantizeRGB(rgb_part, num_colors), LAMBDA quantized_rgb :
         Let(PasteOpaque(NewImage("RGBA", image.w, image.h, <<0, 0, 0, 0>>), quantized_rgb),
             LAMBDA quantized_rgba :
         PutAlpha(quantized_rgba, alpha_part)))))
    ELSE QuantizeRGB(image, num_colors)

(***************************************************************************)
(* The processor.  self is the record of the four fields.                  *)
(***************************************************************************)
\* ImageProcessor.__init__
NewProcessor ==
    [original_image |-> NoImage, processed_image |-> NoImage,
     has_transparency |-> FALSE, background_color |-> <<255, 255, 255>>]

\* the processor the variables hold
Self ==
    [original_image |-> original_image, processed_image |-> processed_image,
     has_transparency |-> has_transparency, background_color |-> background_color]

\* ImageProcessor._has_transparency
_has_transparency(image) ==
    \/ image.mode \in {"RGBA", "LA"}
    \/ (image.mode = "P" /\ image.transparency /= {})

\* ImageProcessor.load_image.  A file is [openable, image]: Image.open raises for a file
\* that is not openable and returns the image, not yet decoded, otherwise; convert
\* decodes it and raises when the data cannot be decoded
load_image(self, file) ==
    IF ~file.openable THEN [self |-> self, ret |-> FALSE]
    ELSE LET opened == file.image
             transparent == _has_transparency(opened)
             target == IF transparent THEN "RGBA" ELSE "RGB"
             assigned == [self EXCEPT !.original_image = opened, !.has_transparency = transparent]
         IN IF opened.mode = target THEN [self |-> assigned, ret |-> TRUE]
            ELSE IF ~opened.decodable THEN [self |-> assigned, ret |-> FALSE]
            ELSE [self |-> [assigned EXCEPT !.original_image = Convert(opened, target)], ret |-> TRUE]

\* a faulty variant of NewDim: a dimension of zero is raised to one
NewDimClamped(size, pixel_size) == Max(1, FloorDiv(size, pixel_size))

\* apply_pixelation: new_width = width // pixel_size (pixel_size /= 0)
NewDim(size, pixel_size) == FloorDiv(size, pixel_size)

\* a faulty variant of NeedsComposite: the compositing ignores preserve_transparency
NeedsCompositeWhenTransparent(self, preserve_transparency) == self.has_transparency

\* apply_pixelation: "if self.has_transparency and not preserve_transparency"
NeedsComposite(self, preserve_transparency) ==
    self.has_transparency /\ ~preserve_transparency

\* a faulty variant of Upscale: the small image is scaled by pixel_size instead of to the original size
UpscaleByFactor(small_img, width, height, pixel_size) ==
    Resize(small_img, small_img.w * pixel_size, small_img.h * pixel_size)

\* apply_pixelation: small_img.resize((width, height), NEAREST)
Upscale(small_img, width, height, pixel_size) == Resize(small_img, width, height)

\* a faulty variant of Failure: a failed call drops the processed image the processor held
FailureClearsResult(self, why, composited, entered, enhanced) ==
    [ret |-> FALSE, why |-> why, processed_image |-> NoImage,
     composited |-> composited,
     entered |-> entered, enhanced |-> enhanced,
     small |-> NoImage, quantized |-> NoImage]

\* a call of apply_pixelation that fails ("return False"): the processed image is the one
\* the processor held; composited, entered and enhanced tell of the stages that ran
Failure(self, why, composited, entered, enhanced) ==
    [ret |-> FALSE, why |-> why, processed_image |-> self.processed_image,
     composited |-> composited,
     entered |-> entered, enhanced |-> enhanced,
     small |-> NoImage, quantized |-> NoImage]

\* ImageProcessor.apply_pixelation: the value returned, the processed image the processor
\* holds afterwards, and the buffers of the stages (entered: the buffer the enhancement
\* starts from; enhanced: the buffer the downscale reads)
apply_pixelation(self, pixel_size, num_colors, contrast, saturation, preserve_transparency) ==
    IF self.original_image = NoImage THEN Failure(self, "no image", FALSE, NoImage, NoImage)
    ELSE IF ~self.original_image.decodable
    THEN Failure(self, "copy raises", FALSE, NoImage, NoImage)
    ELSE
    Let(Copy(self.original_image), LAMBDA copied :
    Let(NeedsComposite(self, preserve_transparency), LAMBDA composited :
    Let(IF composited THEN composite_with_background(copied, self.background_color) ELSE copied,
        LAMBDA entered :
    Let(ContrastStage(entered, contrast), LAMBDA contrasted :
    Let(SaturationStage(contrasted, saturation), LAMBDA enhanced :
    IF pixel_size = 0 THEN Failure(self, "division by zero", composited, entered, enhanced)
    ELSE
    Let(NewDim(enhanced.w, pixel_size), LAMBDA new_width :
    Let(NewDim(enhanced.h, pixel_size), LAMBDA new_height :
    IF new_width = 0 \/ new_height = 0
    THEN Failure(self, "degenerate", composited, entered, enhanced)
    ELSE IF ResizeRaises(new_width, new_height)
    THEN Failure(self, "resize raises", composited, entered, enhanced)
    ELSE
    Let(Resize(enhanced, new_width, new_height), LAMBDA small :
    IF QuantizeRaises(num_colors)
    THEN Failure(self, "quantize raises", composited, entered, enhanced)
    ELSE
    Let(quantize_colors_with_alpha(small, num_colors), LAMBDA quantized :
    [ret |-> TRUE, why |-> "ok",
     processed_image |-> Upscale(quantized, enhanced.w, enhanced.h, pixel_size),
     composited |-> composited, entered |-> entered, enhanced |-> enhanced,
     small |-> small, quantized |-> quantized])))))))))

(***************************************************************************)
(* save_image.  A path is a sequence of characters.                        *)
(***************************************************************************)
UpperCase ==
    <<"A", "B", "C", "D", "E", "F", "G", "H", "I", "J", "K", "L", "M",
      "N", "O", "P", "Q", "R", "S", "T", "U", "V", "W", "X", "Y", "Z">>
LowerCase ==
    <<"a", "b", "c", "d", "e", "f", "g", "h", "i", "j", "k", "l", "m",
      "n", "o", "p", "q", "r", "s", "t", "u", "v", "w", "x", "y", "z">>

\* str.lower of one character and of a path
LowerChar(c) ==
    IF \E i \in 1..Len(UpperCase) : UpperCase[i] = c
    THEN LowerCase[CHOOSE i \in 1..Len(UpperCase) : UpperCase[i] = c]
    ELSE c
Lower(path) == [i \in 1..Len(path) |-> LowerChar(path[i])] \o <<>>

\* path.split('.')[-1]: what follows the last dot, the whole path when it has no dot
DotsOf(path) == {i \in 1..Len(path) : path[i] = "."}
LastDot(path) == CHOOSE i \in DotsOf(path) : \A j \in DotsOf(path) : j <= i
SplitLast(path) ==
    IF DotsOf(path) = {} THEN path ELSE SubSeq(path, LastDot(path) + 1, Len(path))

\* the format save_image passes to Image.save, and the keyword arguments with it
FormatOf(file_extension) ==
    IF file_extension \in {<<"j", "p", "g">>, <<"j", "p", "e", "g">>} THEN "JPEG"
    ELSE IF file_extension = <<"p", "n", "g">> THEN "PNG"
    ELSE IF file_extension = <<"b", "m", "p">> THEN "BMP"
    ELSE "PNG"
OptionsOf(format) ==
    IF format = "JPEG" THEN {"quality", "optimize"}
    ELSE IF format = "PNG" THEN {"optimize"}
    ELSE {}

\* Image.save raises when the path cannot be written, and for JPEG when the image has an
\* alpha channel
SaveRaises(image, format, writable) ==
    \/ ~writable
    \/ (format = "JPEG" /\ image.mode \in {"RGBA", "LA", "P"})

\* no file was written
NoFile == [path |-> <<>>, format |-> "none", options |-> {}, quality |-> 0, image |-> NoImage]

\* the quality save_image takes when none is given
DefaultQuality == 95

\* ImageProcessor.save_image: the value returned and the file written
save_image(self, file_path, quality, writable) ==
    IF self.processed_image = NoImage THEN [ret |-> FALSE, written |-> NoFile]
    ELSE
    Let(FormatOf(SplitLast(Lower(file_path))), LAMBDA format :
    IF SaveRaises(self.processed_image, format, writable)
    THEN [ret |-> FALSE, written |-> NoFile]
    ELSE [ret |-> TRUE,
          written |-> [path |-> file_path, format |-> format, options |-> OptionsOf(format),
                       quality |-> IF "quality" \in OptionsOf(format) THEN quality ELSE 0,
                       image |-> self.processed_image]])

(***************************************************************************)
(* Inputs: the files, the parameters and the background colors tried.      *)
(***************************************************************************)
\* n pixels painted by repeating a swatch
Paint(swatch, n) == [i \in 1..n |-> swatch[((i - 1) % Len(swatch)) + 1]]

\* the kinds of file: a mode, the pixels, and for a P file its palette and the
\* transparent index it declares
RGBKinds ==
    { [mode |-> "RGB", swatch |-> <<<<200, 30, 30>>, <<30, 200, 30>>, <<30, 30, 200>>>>,
       palette |-> <<>>, transparency |-> {}],
      [mode |-> "RGB", swatch |-> <<<<10, 10, 10>>, <<240, 240, 240>>, <<128, 64, 0>>, <<0, 64, 128>>, <<255, 255, 0>>>>,
       palette |-> <<>>, transparency |-> {}] }

RGBAKinds ==
    { [mode |-> "RGBA", swatch |-> <<<<200, 30, 30, 255>>, <<30, 200, 30, 128>>, <<30, 30, 200, 0>>>>,
       palette |-> <<>>, transparency |-> {}],
      [mode |-> "RGBA", swatch |-> <<<<250, 250, 250, 255>>, <<0, 100, 200, 255>>>>,
       palette |-> <<>>, transparency |-> {}] }

OtherKinds ==
    { [mode |-> "L", swatch |-> <<<<0>>, <<100>>, <<255>>>>, palette |-> <<>>, transparency |-> {}],
      [mode |-> "LA", swatch |-> <<<<0, 255>>, <<100, 0>>, <<255, 77>>>>, palette |-> <<>>, transparency |-> {}],
      [mode |-> "P", swatch |-> <<<<0>>, <<1>>, <<2>>>>,
       palette |-> <<<<255, 0, 0>>, <<0, 255, 0>>, <<20, 40, 60>>>>, transparency |-> {}],
      [mode |-> "P", swatch |-> <<<<0>>, <<1>>, <<2>>>>,
       palette |-> <<<<255, 0, 0>>, <<0, 255, 0>>, <<20, 40, 60>>>>, transparency |-> {1}] }

\* a file of a kind and a size, whose data can be decoded or not (a truncated file)
FileOf(kind, w, h, decodable) ==
    [openable |-> TRUE,
     image |-> [mode |-> kind.mode, w |-> w, h |-> h, px |-> Paint(kind.swatch, w * h),
                palette |-> kind.palette, transparency |-> kind.transparency,
                decodable |-> decodable]]

\* a file Image.open cannot read
Unreadable == [openable |-> FALSE, image |-> NoImage]

\* one kind of each mode and declaration
SessionKinds ==
    OtherKinds \cup {k \in RGBKinds \cup RGBAKinds : Len(k.swatch) = 3}

\* the files of a session: a small square file of every mode, decodable or truncated, and
\* an unreadable one
SessionFiles ==
    {Unreadable} \cup {FileOf(k, SessionDim, SessionDim, d) : k \in SessionKinds, d \in BOOLEAN}

\* the files given to the pipeline: decodable RGB and RGBA files of every size within the
\* bounds, and small square files of the other modes
PipeFiles ==
    {FileOf(k, sz[1], sz[2], TRUE) :
        k \in RGBKinds \cup RGBAKinds,
        sz \in {s \in (1..MaxDim) \X (1..MaxDim) : s[1] * s[2] <= MaxArea}}
    \cup {FileOf(k, n, n, TRUE) : k \in OtherKinds, n \in 1..SessionDim}

Backgrounds == {<<255, 255, 255>>, <<0, 0, 255>>}
PixelSizes == (0 - 1)..MaxPixelSize
NumColors == 0..MaxColors

\* the record of a call
Call(op, ret) ==
    [op |-> op, ret |-> ret, why |-> "", pixel_size |-> 0, num_colors |-> 0,
     contrast |-> 0, saturation |-> 0, preserve_transparency |-> FALSE,
     composited |-> FALSE, entered |-> NoImage, enhanced |-> NoImage,
     small |-> NoImage, quantized |-> NoImage,
     file_path |-> <<>>, quality |-> 0, written |-> NoFile]

\* the record of a helper's call on a buffer: the buffer before and after the call, the
\* image returned (NoImage when the call raised), and the call's other argument
HelperCall(op, before, after, out, num_colors, color, raised) ==
    [op |-> op, before |-> before, after |-> after, out |-> out,
     num_colors |-> num_colors, color |-> color, raised |-> raised, detected |-> FALSE]

\* no helper was called
NoHelper == HelperCall("none", NoImage, NoImage, NoImage, 0, <<0, 0, 0>>, FALSE)

\* the buffers given to the stage helpers: RGB and RGBA, every size within the bound
HelperBuffers ==
    {FileOf(k, w, h, TRUE).image :
        k \in RGBKinds \cup RGBAKinds, w \in 1..MaxHelperDim, h \in 1..MaxHelperDim}

\* the images given to the transparency detection: the buffers, and opened images of the
\* other modes
DetectionInputs ==
    HelperBuffers \cup {FileOf(k, n, n, TRUE).image : k \in OtherKinds, n \in 1..SessionDim}

(***************************************************************************)
(* The application (main.py).  Its handlers run one at a time in the Tk     *)
(* main loop; _process_image starts a worker thread, whose steps interleave *)
(* with the handlers and which hands its results to the main loop with      *)
(* root.after.  An image is known here by the number of the load that gave  *)
(* it (0: None), a result by the original it was computed from.  The        *)
(* progress frame and the message boxes are left out.                       *)
(***************************************************************************)
\* the loads, resets and starts of a worker thread in a run of the application, together
MaxActions == 4

\* no processed image (None): a result tells the original it was computed from, the
\* processor that computed it, and how often the result preview had been cleared by
\* _load_image and _reset_all when its run started
NoResult == [source |-> 0, processor |-> 0, epoch |-> 0]

\* ImageProcessor() as the application sees it
AppProcessor == [original_image |-> 0, processed_image |-> NoResult]

\* Img2PixApp.__init__: processors are the ImageProcessor objects made so far, processor
\* the index of self.processor, threads the worker threads that have not ended, started
\* the number of threads started so far
NewApp ==
    [processors |-> <<AppProcessor>>, processor |-> 1, loads |-> 0, epoch |-> 0,
     auto_process |-> FALSE, button |-> "normal", result_preview |-> NoResult,
     threads |-> <<>>, started |-> 0, events |-> <<>>, timers |-> 0]

\* self.processor.get_original_image()
get_original_image(a) == a.processors[a.processor].original_image

\* threading.Thread(target=self._process_image_thread), started
NewThread(a) == [pc |-> "call", processor |-> 0, copied |-> 0, epoch |-> a.epoch]

\* Img2PixApp._process_image
_process_image(a) ==
    IF get_original_image(a) = 0 THEN a
    ELSE [a EXCEPT !.button = "disabled",
                   !.threads = Append(@, NewThread(a)),
                   !.started = @ + 1]

\* Img2PixApp._on_parameter_change
_on_parameter_change(a) ==
    IF a.auto_process /\ get_original_image(a) /= 0 THEN _process_image(a) ELSE a

\* Img2PixApp._load_image.  load_image returns True ("ok"), or fails before it assigned
\* the image ("unreadable") or after ("undecodable")
_load_image(a, outcome) ==
    IF outcome = "unreadable" THEN a
    ELSE IF outcome = "undecodable"
    THEN [a EXCEPT !.processors[a.processor].original_image = a.loads + 1,
                   !.loads = @ + 1]
    ELSE [a EXCEPT !.processors[a.processor].original_image = a.loads + 1,
                   !.loads = @ + 1,
                   !.result_preview = NoResult,
                   !.epoch = @ + 1,
                   !.timers = IF a.auto_process THEN @ + 1 ELSE @]

\* Img2PixApp._reset_all
_reset_all(a) ==
    [a EXCEPT !.processors = Append(@, AppProcessor),
              !.processor = Len(a.processors) + 1,
              !.result_preview = NoResult,
              !.epoch = @ + 1]

\* _process_image_thread, lines 251-260, and apply_pixelation up to its copy of the
\* original: reading the parameters raises, or the call goes to the processor
\* self.processor names now, which has an original image or none
thread_call(a, t, raises) ==
    IF raises \/ get_original_image(a) = 0
    THEN [a EXCEPT !.threads[t].pc = "finally"]
    ELSE [a EXCEPT !.threads[t].pc = "run",
                   !.threads[t].processor = a.processor,
                   !.threads[t].copied = get_original_image(a)]

\* a faulty variant of thread_run: a run that fails ends without reaching the finally clause
thread_run_skips_finally(a, t, success) ==
    IF success
    THEN [a EXCEPT !.threads[t].pc = "get",
                   !.processors[a.threads[t].processor].processed_image =
                       [source |-> a.threads[t].copied,
                        processor |-> a.threads[t].processor,
                        epoch |-> a.threads[t].epoch]]
    ELSE [a EXCEPT !.threads = SubSeq(@, 1, t - 1) \o SubSeq(@, t + 1, Len(@))]

\* apply_pixelation from its copy to its return: it stores the processed image and
\* returns True, or returns False
thread_run(a, t, success) ==
    IF success
    THEN [a EXCEPT !.threads[t].pc = "get",
                   !.processors[a.threads[t].processor].processed_image =
                       [source |-> a.threads[t].copied,
                        processor |-> a.threads[t].processor,
                        epoch |-> a.threads[t].epoch]]
    ELSE [a EXCEPT !.threads[t].pc = "finally"]

\* _process_image_thread, lines 267-277: the result is read from self.processor and its
\* display is scheduled
thread_get(a, t) ==
    Let(a.processors[a.processor].processed_image, LAMBDA result_img :
        [a EXCEPT !.threads[t].pc = "finally",
                  !.events = Append(@, [kind |-> "display_image", image |-> result_img])])

\* _process_image_thread, lines 286-288: the re-enabling of the button is scheduled, and
\* the thread ends
thread_finally(a, t) ==
    [a EXCEPT !.threads = SubSeq(@, 1, t - 1) \o SubSeq(@, t + 1, Len(@)),
              !.events = Append(@, [kind |-> "configure", image |-> NoResult])]

\* the main loop runs the callback scheduled first
run_callback(a) ==
    Let(Head(a.events), LAMBDA e :
        [a EXCEPT !.events = Tail(@),
                  !.result_preview = IF e.kind = "display_image" THEN e.image ELSE @,
                  !.button = IF e.kind = "configure" THEN "normal" ELSE @])

\* the loads, resets and thread starts so far, the starts scheduled included
ActionsOf(a) == a.loads + (Len(a.processors) - 1) + a.started + a.timers

\* n more loads, resets or thread starts are within the bound
ActionsLeft(a, n) == ActionsOf(a) + n <= MaxActions

(***************************************************************************)
(* The operations of a session.                                            *)
(***************************************************************************)
Init ==
    /\ original_image = NewProcessor.original_image
    /\ processed_image = NewProcessor.processed_image
    /\ has_transparency = NewProcessor.has_transparency
    /\ background_color = NewProcessor.background_color
    /\ run = Call("none", FALSE)
    /\ helper = NoHelper
    /\ app = NewApp

\* processor.load_image(file)
LoadImage(file) ==
    \E r \in {load_image(Self, file)} :
       /\ original_image' = r.self.original_image
       /\ has_transparency' = r.self.has_transparency
       /\ processed_image' = r.self.processed_image
       /\ background_color' = r.self.background_color
       /\ run' = Call("load_image", r.ret)
       /\ helper' = helper
       /\ app' = app

\* processor.set_background_color(color)
SetBackgroundColor(color) ==
    /\ background_color' = color
    /\ run' = Call("set_background_color", TRUE)
    /\ UNCHANGED <<original_image, processed_image, has_transparency, helper, app>>

\* processor.apply_pixelation(pixel_size, num_colors, contrast, saturation, preserve_transparency)
ApplyPixelation(pixel_size, num_colors, contrast, saturation, preserve_transparency) ==
    \E r \in {apply_pixelation(Self, pixel_size, num_colors, contrast, saturation,
                              preserve_transparency)} :
       /\ processed_image' = r.processed_image
       /\ run' = [op |-> "apply_pixelation", ret |-> r.ret, why |-> r.why,
                  pixel_size |-> pixel_size, num_colors |-> num_colors,
                  contrast |-> contrast, saturation |-> saturation,
                  preserve_transparency |-> preserve_transparency,
                  composited |-> r.composited, entered |-> r.entered,
                  enhanced |-> r.enhanced, small |-> r.small, quantized |-> r.quantized,
                  file_path |-> <<>>, quality |-> 0, written |-> NoFile]
       /\ UNCHANGED <<original_image, has_transparency, background_color, helper, app>>

Load == \E file \in SessionFiles : LoadImage(file)

SetBackground == \E color \in Backgrounds : SetBackgroundColor(color)

\* the parameters of a session: pixel sizes from -1 up to one more than the files' size, no
\* or two colors, no enhancement
Pixelate ==
    \E pixel_size \in (0 - 1)..(SessionDim + 1), num_colors \in {0, 2},
       preserve_transparency \in BOOLEAN :
        ApplyPixelation(pixel_size, num_colors, One, One, preserve_transparency)

Next == Load \/ SetBackground \/ Pixelate

Spec == Init /\ [][Next]_vars

(***************************************************************************)
(* The pipeline on its own: a processor that has loaded a file and set a   *)
(* background color runs apply_pixelation once, with every parameter       *)
(* within the bounds.                                                      *)
(***************************************************************************)
InitPixelate ==
    \E file \in PipeFiles, color \in {NewProcessor.background_color} :
        LET loaded == load_image(NewProcessor, file).self
        IN /\ original_image = loaded.original_image
           /\ processed_image = loaded.processed_image
           /\ has_transparency = loaded.has_transparency
           /\ background_color = color
           /\ run = Call("load_image", TRUE)
           /\ helper = NoHelper
           /\ app = NewApp

PixelateOnce ==
    /\ run.op = "load_image"
    /\ \E pixel_size \in PixelSizes, num_colors \in NumColors, contrast \in Factors,
          saturation \in Factors, preserve_transparency \in BOOLEAN :
           ApplyPixelation(pixel_size, num_colors, contrast, saturation, preserve_transparency)

NextPixelate == PixelateOnce

SpecPixelate == InitPixelate /\ [][NextPixelate]_vars

(***************************************************************************)
(* The stage helpers on their own: a caller holds a buffer and calls one   *)
(* helper on it.                                                           *)
(***************************************************************************)
InitHelpers ==
    /\ original_image = NewProcessor.original_image
    /\ processed_image = NewProcessor.processed_image
    /\ has_transparency = NewProcessor.has_transparency
    /\ background_color = NewProcessor.background_color
    /\ run = Call("none", FALSE)
    /\ \E buffer \in HelperBuffers :
           helper = HelperCall("none", buffer, buffer, NoImage, 0, <<0, 0, 0>>, FALSE)
    /\ app = NewApp

\* processor._composite_with_background(buffer, color)
CompositeWithBackground ==
    /\ helper.op = "none"
    /\ \E color \in Backgrounds :
           helper' = HelperCall("_composite_with_background", helper.before, helper.before,
                                composite_with_background(helper.before, color), 0, color, FALSE)
    /\ UNCHANGED <<original_image, processed_image, has_transparency, background_color, run, app>>

\* processor.quantize_colors_with_alpha(buffer, num_colors)
QuantizeColorsWithAlpha ==
    /\ helper.op = "none"
    /\ \E num_colors \in NumColors :
           helper' = IF QuantizeRaises(num_colors)
                     THEN HelperCall("quantize_colors_with_alpha", helper.before, helper.before,
                                     NoImage, num_colors, <<0, 0, 0>>, TRUE)
                     ELSE HelperCall("quantize_colors_with_alpha", helper.before, helper.before,
                                     quantize_colors_with_alpha(helper.before, num_colors),
                                     num_colors, <<0, 0, 0>>, FALSE)
    /\ UNCHANGED <<original_image, processed_image, has_transparency, background_color, run, app>>

\* processor.quantize_colors(buffer, num_colors)
QuantizeColors ==
    /\ helper.op = "none"
    /\ \E num_colors \in NumColors :
           helper' = IF QuantizeColorsRaises(helper.before, num_colors)
                     THEN HelperCall("quantize_colors", helper.before, helper.before,
                                     NoImage, num_colors, <<0, 0, 0>>, TRUE)
                     ELSE HelperCall("quantize_colors", helper.before, helper.before,
                                     quantize_colors(helper.before, num_colors),
                                     num_colors, <<0, 0, 0>>, FALSE)
    /\ UNCHANGED <<original_image, processed_image, has_transparency, background_color, run, app>>

\* processor.resize_image(buffer, target_size, maintain_aspect)
ResizeImage ==
    /\ helper.op = "none"
    /\ \E x \in 1..MaxHelperDim, y \in 1..MaxHelperDim, maintain_aspect \in BOOLEAN :
       \E r \in {resize_image(helper.before, <<x, y>>, maintain_aspect)} :
           helper' = HelperCall("resize_image", helper.before, r.image, r.out, 0, <<0, 0, 0>>, FALSE)
    /\ UNCHANGED <<original_image, processed_image, has_transparency, background_color, run, app>>

\* processor._has_transparency(image), on the buffer held or on another opened image
HasTransparency ==
    /\ helper.op = "none"
    /\ \E image \in DetectionInputs :
           helper' = [HelperCall("_has_transparency", image, image, NoImage, 0, <<0, 0, 0>>, FALSE)
                          EXCEPT !.detected = _has_transparency(image)]
    /\ UNCHANGED <<original_image, processed_image, has_transparency, background_color, run, app>>

NextHelpers ==
    \/ CompositeWithBackground
    \/ QuantizeColorsWithAlpha
    \/ QuantizeColors
    \/ ResizeImage
    \/ HasTransparency

SpecHelpers == InitHelpers /\ [][NextHelpers]_vars

(***************************************************************************)
(* Saving on its own: a processor that has loaded a file or not, and has   *)
(* run the pipeline or not, is asked once to save to a path.               *)
(***************************************************************************)
\* the paths tried
Paths ==
    { <<"o", ".", "j", "p", "g">>, <<"o", ".", "J", "P", "G">>, <<"o", ".", "j", "p", "e", "g">>,
      <<"o", ".", "J", "p", "e", "G">>, <<"o", ".", "p", "n", "g">>, <<"o", ".", "P", "N", "G">>,
      <<"o", ".", "b", "m", "p">>, <<"o", ".", "B", "m", "p">>, <<"o", ".", "g", "i", "f">>,
      <<"o", ".", "p", "n", "g", ".", "b", "m", "p">>, <<"o", ".", "b", "m", "p", ".", "t">>,
      <<"o", ".">>, <<"o", "u", "t">>, <<"a", ".", "b", "/", "j", "p", "g">>,
      <<"j", "p", "g">>, <<"J", "P", "E", "G">>, <<"b", "m", "p">>, <<"p", "n", "g">> }
Qualities == {DefaultQuality, 50}

\* processor.save_image(file_path, quality)
SaveImage(file_path, quality, writable) ==
    \E r \in {save_image(Self, file_path, quality, writable)} :
       /\ run' = [Call("save_image", r.ret) EXCEPT !.file_path = file_path,
                                                    !.quality = quality,
                                                    !.written = r.written]
       /\ UNCHANGED <<original_image, processed_image, has_transparency, background_color, helper, app>>

InitSave ==
    \E file \in SessionFiles, ran \in BOOLEAN, preserve_transparency \in BOOLEAN :
        LET loaded == load_image(NewProcessor, file).self
            done == apply_pixelation(loaded, 1, 2, One, One, preserve_transparency)
        IN /\ original_image = loaded.original_image
           /\ has_transparency = loaded.has_transparency
           /\ background_color = loaded.background_color
           /\ processed_image = IF ran THEN done.processed_image ELSE loaded.processed_image
           /\ run = Call("none", FALSE)
           /\ helper = NoHelper
           /\ app = NewApp

SaveOnce ==
    /\ run.op = "none"
    /\ \E file_path \in Paths, quality \in Qualities, writable \in BOOLEAN :
           SaveImage(file_path, quality, writable)

NextSave == SaveOnce

SpecSave == InitSave /\ [][NextSave]_vars

(***************************************************************************)
(* The application: the user's actions, the main loop and the worker       *)
(* threads, interleaved.                                                   *)
(***************************************************************************)
InitApp ==
    /\ original_image = NewProcessor.original_image
    /\ processed_image = NewProcessor.processed_image
    /\ has_transparency = NewProcessor.has_transparency
    /\ background_color = NewProcessor.background_color
    /\ run = Call("none", FALSE)
    /\ helper = NoHelper
    /\ app = NewApp

\* the variables of the processor on its own, which the application's steps leave alone
alone == <<original_image, processed_image, has_transparency, background_color, run, helper>>

\* the user clicks the process button, which takes clicks only when enabled
ClickProcess ==
    /\ app.button = "normal"
    /\ ActionsLeft(app, 1)
    /\ app' = _process_image(app)
    /\ UNCHANGED alone

\* the user moves a slider
ParameterChange ==
    /\ ActionsLeft(app, 1)
    /\ app' = _on_parameter_change(app)
    /\ UNCHANGED alone

\* the user ticks or unticks "Auto-process on parameter change"
ToggleAutoProcess ==
    /\ app' = [app EXCEPT !.auto_process = ~@]
    /\ UNCHANGED alone

\* the user opens a file
OpenImage ==
    /\ ActionsLeft(app, IF app.auto_process THEN 2 ELSE 1)
    /\ \E outcome \in {"ok", "unreadable", "undecodable"} : app' = _load_image(app, outcome)
    /\ UNCHANGED alone

\* the user clicks Reset
ResetAll ==
    /\ ActionsLeft(app, 1)
    /\ app' = _reset_all(app)
    /\ UNCHANGED alone

\* root.after(100, self._process_image) comes due
TimerFires ==
    /\ app.timers > 0
    /\ app' = _process_image([app EXCEPT !.timers = @ - 1])
    /\ UNCHANGED alone

\* the main loop runs a callback a worker scheduled with root.after(0, ...)
RunCallback ==
    /\ app.events /= <<>>
    /\ app' = run_callback(app)
    /\ UNCHANGED alone

ThreadCall ==
    /\ \E t \in 1..Len(app.threads), raises \in BOOLEAN :
           /\ app.threads[t].pc = "call"
           /\ app' = thread_call(app, t, raises)
    /\ UNCHANGED alone

ThreadRun ==
    /\ \E t \in 1..Len(app.threads), success \in BOOLEAN :
           /\ app.threads[t].pc = "run"
           /\ app' = thread_run(app, t, success)
    /\ UNCHANGED alone

ThreadGet ==
    /\ \E t \in 1..Len(app.threads) :
           /\ app.threads[t].pc = "get"
           /\ app' = thread_get(app, t)
    /\ UNCHANGED alone

ThreadFinally ==
    /\ \E t \in 1..Len(app.threads) :
           /\ app.threads[t].pc = "finally"
           /\ app' = thread_finally(app, t)
    /\ UNCHANGED alone

\* a step of a worker thread
Worker == ThreadCall \/ ThreadRun \/ ThreadGet \/ ThreadFinally

NextApp ==
    \/ ClickProcess
    \/ ParameterChange
    \/ ToggleAutoProcess
    \/ OpenImage
    \/ ResetAll
    \/ TimerFires
    \/ RunCallback
    \/ ThreadCall
    \/ ThreadRun
    \/ ThreadGet
    \/ ThreadFinally

SpecApp == InitApp /\ [][NextApp]_vars

\* the worker threads run and the main loop keeps running the callbacks scheduled
SpecAppFair == SpecApp /\ WF_vars(Worker) /\ WF_vars(RunCallback)

(***************************************************************************)
(* Properties.                                                             *)
(***************************************************************************)
\* the last call was apply_pixelation and it returned True
Succeeded == run.op = "apply_pixelation" /\ run.ret

\* the distinct RGB colors of an RGB or RGBA buffer
ColorsOf(image) == {RGBOf(image.px[i]) : i \in 1..Len(image.px)}

\* pixels i and j of a buffer of width w are in the same block of side pixel_size, the
\* blocks counted from the top-left corner
SameBlock(i, j, w, pixel_size) ==
    /\ ((i - 1) % w) \div pixel_size = ((j - 1) % w) \div pixel_size
    /\ ((i - 1) \div w) \div pixel_size = ((j - 1) \div w) \div pixel_size

\* C1: after a successful apply_pixelation every block of the processed image aligned to
\* multiples of pixel_size, the partial blocks at the right and bottom edges included,
\* has one color
C1_BlocksUniform ==
    Succeeded =>
        \A i, j \in 1..Len(processed_image.px) :
            SameBlock(i, j, processed_image.w, run.pixel_size)
                => processed_image.px[i] = processed_image.px[j]

\* C2: the quantize step leaves at most num_colors distinct RGB colors (alpha not counted),
\* for RGB and for RGBA buffers, and so does the processed image of apply_pixelation
C2_PaletteBound ==
    Succeeded =>
        /\ Cardinality(ColorsOf(run.quantized)) <= run.num_colors
        /\ Cardinality(ColorsOf(processed_image)) <= run.num_colors

\* C2's case: an RGBA buffer of more colors than num_colors was quantized
C2_Witness ==
    /\ Succeeded
    /\ run.small.mode = "RGBA"
    /\ Cardinality(ColorsOf(run.small)) > run.num_colors
    /\ run.num_colors >= 2

\* the last call was quantize_colors_with_alpha on an RGBA buffer and it returned
QuantizedRGBA ==
    /\ helper.op = "quantize_colors_with_alpha"
    /\ ~helper.raised
    /\ helper.before.mode = "RGBA"

\* C3: quantize_colors_with_alpha on an RGBA buffer returns an RGBA image of the same size
\* whose every pixel has the alpha value of the same pixel of the input
C3_AlphaPreserved ==
    QuantizedRGBA =>
        /\ helper.out.mode = "RGBA"
        /\ helper.out.w = helper.before.w
        /\ helper.out.h = helper.before.h
        /\ Len(helper.out.px) = Len(helper.before.px)
        /\ \A i \in 1..Len(helper.before.px) :
               /\ Len(helper.out.px[i]) = 4
               /\ helper.out.px[i][4] = helper.before.px[i][4]

\* C3's case: a buffer with alpha values other than 255 was quantized and RGB samples
\* were replaced
C3_Witness ==
    /\ QuantizedRGBA
    /\ \E i \in 1..Len(helper.before.px) : helper.before.px[i][4] \notin {0, 255}
    /\ \E i \in 1..Len(helper.before.px) : helper.before.px[i][4] = 0
    /\ \E i \in 1..Len(helper.before.px) : RGBOf(helper.out.px[i]) /= RGBOf(helper.before.px[i])

\* the last call was apply_pixelation on a loaded image with a pixel_size other than 0
\* for which width // pixel_size or height // pixel_size is 0
DegenerateCall ==
    /\ run.op = "apply_pixelation"
    /\ original_image /= NoImage
    /\ run.pixel_size /= 0
    /\ \/ FloorDiv(original_image.w, run.pixel_size) = 0
       \/ FloorDiv(original_image.h, run.pixel_size) = 0

\* C4: apply_pixelation fails whenever width // pixel_size or height // pixel_size is 0,
\* and the processor never holds a processed image of a width or height below 1
C4_DegenerateFails ==
    /\ DegenerateCall => ~run.ret
    /\ processed_image /= NoImage => (processed_image.w >= 1 /\ processed_image.h >= 1)
    /\ Succeeded => processed_image /= NoImage

\* C4's case: only the height is too small for the block, and the call failed
C4_Witness ==
    /\ DegenerateCall
    /\ FloorDiv(original_image.w, run.pixel_size) >= 2
    /\ FloorDiv(original_image.h, run.pixel_size) = 0
    /\ ~run.ret
    /\ processed_image = NoImage

\* C5: whenever apply_pixelation succeeds the processed image has the width and height of
\* the original image
C5_SizePreserved ==
    Succeeded =>
        /\ processed_image.w = original_image.w
        /\ processed_image.h = original_image.h
        /\ Len(processed_image.px) = original_image.w * original_image.h

\* C5's case: a success with a pixel_size that divides neither dimension
C5_Witness ==
    /\ Succeeded
    /\ original_image.w % run.pixel_size /= 0
    /\ original_image.h % run.pixel_size /= 0
    /\ run.pixel_size >= 2

\* the last call was _composite_with_background on an RGBA buffer
CompositedRGBA ==
    /\ helper.op = "_composite_with_background"
    /\ helper.before.mode = "RGBA"

\* C6: _composite_with_background on an RGBA image gives an image without alpha in which
\* a pixel of alpha 255 has its own RGB value and a pixel of alpha 0 the background color
C6_CompositeExact ==
    CompositedRGBA =>
        /\ helper.out.mode = "RGB"
        /\ Len(helper.out.px) = Len(helper.before.px)
        /\ \A i \in 1..Len(helper.before.px) :
               /\ Len(helper.out.px[i]) = 3
               /\ helper.before.px[i][4] = 255 => helper.out.px[i] = RGBOf(helper.before.px[i])
               /\ helper.before.px[i][4] = 0 => helper.out.px[i] = helper.color

\* C6's case: a buffer with an opaque pixel, and a transparent pixel of another color than
\* the background, composited on a background that is not the default
C6_Witness ==
    /\ CompositedRGBA
    /\ helper.color /= NewProcessor.background_color
    /\ \E i \in 1..Len(helper.before.px) :
           helper.before.px[i][4] = 255 /\ RGBOf(helper.before.px[i]) /= helper.color
    /\ \E i \in 1..Len(helper.before.px) :
           helper.before.px[i][4] = 0 /\ RGBOf(helper.before.px[i]) /= helper.color

\* C7: with contrast 1.0 and saturation 1.0 the buffer the downscale reads is the buffer
\* the enhancement stage started from, sample for sample
C7_EnhanceIdentity ==
    (run.op = "apply_pixelation" /\ run.contrast = One /\ run.saturation = One)
        => run.enhanced = run.entered

\* C7's case: an RGBA buffer with partly transparent pixels went through the stage with
\* both factors 1.0
C7_Witness ==
    /\ Succeeded
    /\ run.contrast = One
    /\ run.saturation = One
    /\ run.entered.mode = "RGBA"
    /\ \E i \in 1..Len(run.entered.px) : run.entered.px[i][4] \notin {0, 255}

\* C8: the compositing stage runs exactly when the source has transparency and
\* preserve_transparency is false, and after a success the processed image has an alpha
\* channel exactly when the source has transparency and preserve_transparency is true
C8_CompositeWhenNeeded ==
    Succeeded =>
        /\ (has_transparency /\ ~run.preserve_transparency)
               => (run.composited /\ run.entered.mode = "RGB")
        /\ ~(has_transparency /\ ~run.preserve_transparency)
               => (~run.composited /\ run.entered = Copy(original_image))
        /\ processed_image.mode = "RGBA" <=> (has_transparency /\ run.preserve_transparency)
        /\ processed_image.mode \in {"RGB", "RGBA"}
        /\ \A i \in 1..Len(processed_image.px) :
               Len(processed_image.px[i]) = IF processed_image.mode = "RGBA" THEN 4 ELSE 3

\* C8's case: a source with transparency was composited and came out as RGB
C8_Witness ==
    /\ Succeeded
    /\ has_transparency
    /\ ~run.preserve_transparency
    /\ original_image.mode = "RGBA"
    /\ run.composited
    /\ processed_image.mode = "RGB"

\* C9: a stage helper leaves the buffer it is given as it was: the same size, mode and
\* pixels after the call as before
C9_InputUnchanged == helper.op /= "none" => helper.after = helper.before

\* C10: whenever original_image is set its mode is RGB or RGBA, and it is RGBA exactly
\* when has_transparency is true
C10_OriginalNormalized ==
    original_image /= NoImage =>
        /\ original_image.mode \in {"RGB", "RGBA"}
        /\ original_image.mode = "RGBA" <=> has_transparency

\* the image has an alpha channel with a value other than 255
HasAlphaBelow255(image) ==
    /\ image.mode \in {"RGBA", "LA"}
    /\ \E i \in 1..Len(image.px) : image.px[i][Len(image.px[i])] /= 255

\* C11: _has_transparency returns true exactly when the image has an alpha channel with a
\* value other than 255 or is a palette image that declares a transparent index
C11_DetectsByAlphaValues ==
    helper.op = "_has_transparency" =>
        (helper.detected <=>
            \/ HasAlphaBelow255(helper.before)
            \/ (helper.before.mode = "P" /\ helper.before.transparency /= {}))

\* the extension of a path: what follows its last dot, lowercased, and nothing when the
\* path has no dot
ExtensionOf(path) == IF DotsOf(path) = {} THEN <<>> ELSE Lower(SplitLast(path))

\* the format the extension convention gives a path
ConventionFormat(path) ==
    IF ExtensionOf(path) \in {<<"j", "p", "g">>, <<"j", "p", "e", "g">>} THEN "JPEG"
    ELSE IF ExtensionOf(path) = <<"b", "m", "p">> THEN "BMP"
    ELSE "PNG"

\* C12: save_image writes JPEG at the given quality with optimization for .jpg/.jpeg, PNG
\* with optimization for .png, BMP for .bmp, and PNG for any other extension or none, the
\* case of the letters ignored; without a processed image it returns False and writes nothing
C12_FormatByExtension ==
    run.op = "save_image" =>
        /\ processed_image = NoImage => (~run.ret /\ run.written = NoFile)
        /\ run.ret <=> run.written /= NoFile
        /\ run.ret =>
              /\ run.written.path = run.file_path
              /\ run.written.image = processed_image
              /\ run.written.format = ConventionFormat(run.file_path)
              /\ run.written.format = "JPEG" =>
                     (run.written.options = {"quality", "optimize"}
                          /\ run.written.quality = run.quality)
              /\ run.written.format = "PNG" => run.written.options = {"optimize"}
              /\ run.written.format = "BMP" => run.written.options = {}

\* the whole enhancement stage, contrast then saturation
EnhanceStage(img, contrast, saturation) ==
    SaturationStage(ContrastStage(img, contrast), saturation)

\* C14: in a run of apply_pixelation the enhancement comes before the compositing: when
\* the compositing applies, the buffer the downscale reads is the working copy of the
\* original, enhanced with its alpha channel and then composited over the background
C14_EnhanceBeforeComposite ==
    (Succeeded /\ run.composited) =>
        run.enhanced =
            composite_with_background(
                EnhanceStage(Copy(original_image), run.contrast, run.saturation),
                background_color)

\* C15: the downscale gives a (width // pixel_size) x (height // pixel_size) buffer whose
\* pixel (i, j) is the pixel (i * pixel_size, j * pixel_size) of the buffer it reads
C15_TopLeftSample ==
    Succeeded =>
        /\ run.small.w = FloorDiv(run.enhanced.w, run.pixel_size)
        /\ run.small.h = FloorDiv(run.enhanced.h, run.pixel_size)
        /\ \A i \in 0..(run.small.w - 1), j \in 0..(run.small.h - 1) :
               run.small.px[j * run.small.w + i + 1]
                   = run.enhanced.px[(j * run.pixel_size) * run.enhanced.w
                                         + (i * run.pixel_size) + 1]

\* C16: a call of apply_pixelation that fails leaves processed_image, original_image,
\* has_transparency and background_color as they were before the call
C16_FailureKeepsState ==
    [][(run'.op = "apply_pixelation" /\ ~run'.ret) =>
           /\ processed_image' = processed_image
           /\ original_image' = original_image
           /\ has_transparency' = has_transparency
           /\ background_color' = background_color]_vars

\* C16's case: a call failed on a degenerate size, or on a pixel_size below 1, while the
\* processor held the result of an earlier run
C16_Witness ==
    /\ run.op = "apply_pixelation"
    /\ ~run.ret
    /\ run.why \in {"degenerate", "resize raises", "division by zero", "quantize raises"}
    /\ processed_image /= NoImage
    /\ original_image /= NoImage

\* C13: at most one worker thread is inside apply_pixelation of the same processor at any
\* time
C13_OneWorkerPerProcessor ==
    \A t, u \in 1..Len(app.threads) :
        (/\ t /= u
         /\ app.threads[t].pc = "run"
         /\ app.threads[u].pc = "run")
            => app.threads[t].processor /= app.threads[u].processor

\* C17: an image in the result preview comes from a run started after the last clearing of
\* the preview by _load_image or _reset_all, and was computed by the current processor from
\* the original it holds
C17_PreviewIsCurrent ==
    app.result_preview /= NoResult =>
        /\ app.result_preview.epoch = app.epoch
        /\ app.result_preview.processor = app.processor
        /\ app.result_preview.source = get_original_image(app)

\* C18: whenever the process button is disabled it is enabled again later
C18_ButtonReenabled == (app.button = "disabled") ~> (app.button = "normal")

\* C18's case: after one load a run has ended without a result to show, and the button is
\* enabled again
C18_Witness ==
    /\ app.started >= 1
    /\ app.threads = <<>>
    /\ app.events = <<>>
    /\ app.epoch = 1
    /\ Len(app.processors) = 1
    /\ app.result_preview = NoResult
    /\ app.processors[1].processed_image = NoResult
    /\ app.button = "normal"

====
